---- MODULE Spec2Model ----
(***************************************************************************)
(* Binary buddy allocator of src/src/lab.c: btok, buddy_calc, buddy_init,  *)
(* buddy_malloc, buddy_free, buddy_realloc.                                *)
(*                                                                         *)
(* Memory is modelled cell by cell.  The arena returned by mmap is the     *)
(* function mem from cell offsets to integers; a block header occupies the *)
(* first HeaderSize cells of its block (tag, kval, next, prev) and headers *)
(* are read and written through addresses exactly as the C code does, so   *)
(* stale headers left behind by splits and merges stay in memory.  The     *)
(* sentinels pool->avail[i] live outside the arena, in avail.              *)
(*                                                                         *)
(* lab.h is not among the sources.  Its constants keep their names; their  *)
(* values are scaled down (one cell stands for one machine word, size_t is *)
(* WordBits wide) keeping SMALLEST_K < MIN_K <= DEFAULT_K < MAX_K <        *)
(* WordBits and HeaderSize < 2^SMALLEST_K.                                 *)
(***************************************************************************)
EXTENDS Integers, Sequences, FiniteSets, TLC

\* ---- lab.h: constants and struct avail layout ----
SMALLEST_K == 3
MIN_K == 4
DEFAULT_K == 5
MAX_K == 6
BLOCK_RESERVED == 0
BLOCK_AVAIL == 1
BLOCK_UNUSED == 3
\* sizeof(struct avail), in cells: tag, kval, next, prev
HeaderSize == 4
TAG == 0
KVAL == 1
NEXT == 2
PREV == 3
NULL == 0
ENOMEM == "ENOMEM"

\* ---- bounds of the model ----
\* width of size_t in bits
WordBits == 8
\* calls followed after a copy has run past the block it was copying into
MaxAfter == 2

Pow2(n) == 2 ^ n
\* unsigned arithmetic of size_t
Wrap(x) == x % Pow2(WordBits)
SizeMax == Pow2(WordBits) - 1

\* the request sizes the caller passes: 0, the smallest exact fit, the first
\* size too large for each order, and two sizes at which size + HeaderSize wraps
Sizes ==
  {0} \cup {Pow2(k) - HeaderSize + 1 : k \in SMALLEST_K .. MAX_K}
      \cup {Pow2(SMALLEST_K) - HeaderSize, SizeMax - HeaderSize + 1, SizeMax}
\* the sizes buddy_init is called with
InitSizes == {0, 1, Pow2(MIN_K) - HeaderSize + 1, Pow2(MAX_K)}

\* ---- addresses ----
\* the address mmap returned (aligned to every order, not NULL)
BaseAddr == Pow2(MAX_K)
\* &pool->avail[i]
\* pool->avail is an array of MAX_K headers, one after the other, away from
\* the arena and from NULL
SentBase == -(HeaderSize * (MAX_K + 1))
SentAddr(i) == SentBase + HeaderSize * i
\* the cell at address a is a cell of pool->avail
InPool(a) == a >= SentBase /\ a < SentBase + HeaderSize * MAX_K
SentIdx(a) == (a - SentBase) \div HeaderSize
SentField(a) == (a - SentBase) % HeaderSize

VARIABLES kval_m, numbytes, avail, mem, live, last, trip, overrun, after, fault
vars == <<kval_m, numbytes, avail, mem, live, last, trip, overrun, after, fault>>

\* ---- btok (lab.c 23-57) ----
RECURSIVE ShiftLoop(_, _)
\* while (temp >>= 1) k++;
ShiftLoop(temp, k) ==
  LET t == temp \div 2 IN IF t # 0 THEN ShiftLoop(t, k + 1) ELSE k

btok(bytes) ==
  IF bytes = 0 THEN 0
  ELSE LET b == Wrap(bytes + HeaderSize)
           temp == Wrap(b - 1)
           k1 == ShiftLoop(temp, 0) + 1
           k2 == IF k1 < SMALLEST_K THEN SMALLEST_K ELSE k1
       IN IF k2 >= MAX_K THEN MAX_K - 1 ELSE k2

\* ---- memory access ----
\* h = [kval_m, numbytes, avail, mem, fault]: the pool, the arena and whether
\* an access through an invalid address has happened
InArena(h, a) == a >= BaseAddr /\ a < BaseAddr + Pow2(h.kval_m)
ValidCell(h, a) == InPool(a) \/ InArena(h, a)
ValidHdr(h, a) ==
  \/ InPool(a) /\ InPool(a + HeaderSize - 1)
  \/ InArena(h, a) /\ InArena(h, a + HeaderSize - 1)
Fault(h) == [h EXCEPT !.fault = TRUE]

\* sequencing: F applied to the value of x
Then(x, F(_)) == CHOOSE y \in {F(v) : v \in {x}} : TRUE

\* a->f
Load(h, a, f) ==
  IF InPool(a + f) THEN h.avail[SentIdx(a + f)][SentField(a + f) + 1]
  ELSE IF InArena(h, a + f) THEN h.mem[a + f - BaseAddr]
  ELSE NULL

\* a->f = v; a store through an invalid address faults
Store(h, a, f, v) ==
  IF h.fault THEN h
  ELSE IF InPool(a + f)
       THEN [h EXCEPT !.avail[SentIdx(a + f)][SentField(a + f) + 1] = v]
  ELSE IF InArena(h, a + f)
       THEN [h EXCEPT !.mem[a + f - BaseAddr] = v]
  ELSE Fault(h)

\* offset ^ (1UL << k)
XorBit(offset, k) ==
  IF (offset \div Pow2(k)) % 2 = 1 THEN offset - Pow2(k) ELSE offset + Pow2(k)

\* ---- buddy_calc (lab.c 65-76) ----
\* a shift count outside 0 .. WordBits-1 yields no address (NULL here)
buddy_calc(h, block) ==
  LET offset == block - BaseAddr
      kv == Load(h, block, KVAL)
  IN IF kv \in 0 .. WordBits - 1 THEN BaseAddr + XorBit(offset, kv) ELSE NULL

\* ---- list surgery written inline in lab.c ----
\* b->prev->next = b->next; b->next->prev = b->prev;   (lab.c 119-120, 181-182)
Unlink(h, b) ==
  IF ~ValidHdr(h, b) THEN Fault(h)
  ELSE Then(Store(h, Load(h, b, PREV), NEXT, Load(h, b, NEXT)), LAMBDA h1 :
            Store(h1, Load(h1, b, NEXT), PREV, Load(h1, b, PREV)))

\* b->next = avail[i].next; b->prev = &avail[i];
\* avail[i].next->prev = b; avail[i].next = b;          (lab.c 133-136, 197-200)
InsertHead(h, b, i) ==
  IF i \notin 0 .. MAX_K - 1 THEN Fault(h)
  ELSE Then(Store(h, b, NEXT, Load(h, SentAddr(i), NEXT)), LAMBDA h1 :
       Then(Store(h1, b, PREV, SentAddr(i)), LAMBDA h2 :
       Then(Store(h2, Load(h2, SentAddr(i), NEXT), PREV, b), LAMBDA h3 :
            Store(h3, SentAddr(i), NEXT, b))))

\* ---- buddy_malloc (lab.c 86-145) ----
RECURSIVE ScanLoop(_, _)
\* for (i = k; i <= kval_m; i++) if (avail[i].next != &avail[i]) break;
ScanLoop(h, i) ==
  IF i <= h.kval_m /\ Load(h, SentAddr(i), NEXT) = SentAddr(i)
  THEN ScanLoop(h, i + 1)
  ELSE i

RECURSIVE SplitLoop(_, _, _, _)
\* while (i > k) { i--; buddy = block + (1 << i); ... }
SplitLoop(h, block, i, k) ==
  IF i > k
  THEN Then(block + Pow2(i - 1), LAMBDA buddy :
       Then(Store(h, buddy, TAG, BLOCK_AVAIL), LAMBDA h1 :
       Then(Store(h1, buddy, KVAL, i - 1), LAMBDA h2 :
       Then(InsertHead(h2, buddy, i - 1), LAMBDA h3 :
            SplitLoop(h3, block, i - 1, k)))))
  ELSE h

\* lab.c 117-144: take the head of list i, split it down to order k, reserve it
TakeBlock(h, i, k) ==
  Then(Load(h, SentAddr(i), NEXT), LAMBDA block :
  Then(Unlink(h, block), LAMBDA h1 :
  Then(SplitLoop(h1, block, i, k), LAMBDA h2 :
  Then(Store(h2, block, TAG, BLOCK_RESERVED), LAMBDA h3 :
  Then(Store(h3, block, KVAL, k), LAMBDA h4 :
       [ret |-> block + HeaderSize, h |-> h4, err |-> FALSE])))))

\* the result: ret the pointer returned, h the memory afterwards, err whether
\* errno was set to ENOMEM
buddy_malloc(h, size) ==
  IF size = 0 THEN [ret |-> NULL, h |-> h, err |-> FALSE]
  ELSE Then(btok(size), LAMBDA k :
    IF k > h.kval_m THEN [ret |-> NULL, h |-> h, err |-> TRUE]
    ELSE Then(ScanLoop(h, k), LAMBDA i :
      IF i > h.kval_m THEN [ret |-> NULL, h |-> h, err |-> TRUE]
      ELSE TakeBlock(h, i, k)))

\* ---- buddy_free (lab.c 153-201) ----
RECURSIVE CoalesceLoop_StopsEarly(_, _, _)
\* the loop with its bound one short: while (k + 1 < kval_m)
CoalesceLoop_StopsEarly(h, block, k) ==
  IF k + 1 < h.kval_m /\ ~h.fault
  THEN Then(buddy_calc(h, block), LAMBDA buddy :
         IF ~ValidHdr(h, buddy) THEN [h |-> Fault(h), block |-> block, k |-> k]
         ELSE IF Load(h, buddy, TAG) # BLOCK_AVAIL \/ Load(h, buddy, KVAL) # k
         THEN [h |-> h, block |-> block, k |-> k]
         ELSE Then(Unlink(h, buddy), LAMBDA h1 :
              Then(IF block > buddy THEN buddy ELSE block, LAMBDA lo :
              Then(Store(h1, lo, KVAL, k + 1), LAMBDA h2 :
                   CoalesceLoop_StopsEarly(h2, lo, k + 1)))))
  ELSE [h |-> h, block |-> block, k |-> k]

RECURSIVE CoalesceLoop(_, _, _)
\* while (k < kval_m) { buddy = buddy_calc(pool, block); ... }
CoalesceLoop(h, block, k) ==
  IF k < h.kval_m /\ ~h.fault
  THEN Then(buddy_calc(h, block), LAMBDA buddy :
         IF ~ValidHdr(h, buddy) THEN [h |-> Fault(h), block |-> block, k |-> k]
         ELSE IF Load(h, buddy, TAG) # BLOCK_AVAIL \/ Load(h, buddy, KVAL) # k
         THEN [h |-> h, block |-> block, k |-> k]
         ELSE Then(Unlink(h, buddy), LAMBDA h1 :
              Then(IF block > buddy THEN buddy ELSE block, LAMBDA lo :
              Then(Store(h1, lo, KVAL, k + 1), LAMBDA h2 :
                   CoalesceLoop(h2, lo, k + 1)))))
  ELSE [h |-> h, block |-> block, k |-> k]

buddy_free(h, ptr) ==
  IF ptr = NULL THEN h
  ELSE Then(ptr - HeaderSize, LAMBDA block :
         IF ~ValidHdr(h, block) THEN Fault(h)
         ELSE Then(Load(h, block, KVAL), LAMBDA k :
              Then(Store(h, block, TAG, BLOCK_AVAIL), LAMBDA h1 :
              Then(CoalesceLoop(h1, block, k), LAMBDA c :
                   InsertHead(c.h, c.block, c.k)))))

\* ---- buddy_realloc (lab.c 211-250) ----
RECURSIVE ForwardCopy(_, _, _, _)
\* a copy that moves one cell at a time from the low end
ForwardCopy(h, dst, src, n) ==
  IF n = 0 \/ h.fault THEN h
  ELSE Then(Store(h, dst, 0, Load(h, src, 0)), LAMBDA h1 :
            ForwardCopy(h1, dst + 1, src + 1, n - 1))

RECURSIVE StoreCells(_, _, _, _)
\* the cells vals[j], vals[j + 1], ... written from address dst on
StoreCells(h, dst, vals, j) ==
  IF j > Len(vals) \/ h.fault THEN h
  ELSE Then(Store(h, dst, 0, vals[j]), LAMBDA h1 :
            StoreCells(h1, dst + 1, vals, j + 1))

\* memcpy(dst, src, n); a range that leaves mapped memory faults; when the two
\* ranges overlap the result is one of the two a library copy produces: all
\* cells read first (fwd = FALSE) or cell by cell from the low end (fwd = TRUE)
memcpy(h, dst, src, n, fwd) ==
  IF n = 0 THEN h
  ELSE IF \E j \in 0 .. n - 1 : ~ValidCell(h, src + j) \/ ~ValidCell(h, dst + j)
       THEN Fault(h)
  ELSE IF fwd THEN ForwardCopy(h, dst, src, n)
  ELSE Then([j \in 1 .. n |-> Load(h, src + j - 1, 0)], LAMBDA vals :
            StoreCells(h, dst, vals, 1))

\* size_t old_size = (1UL << block->kval) - sizeof(struct avail);   (lab.c 229)
OldSize(h, ptr) == Wrap(Pow2(Load(h, ptr - HeaderSize, KVAL)) - HeaderSize)

\* lab.c 242-248: m the result of the buddy_malloc that succeeded
MoveBlock(m, ptr, old_size, fwd) ==
  Then(memcpy(m.h, m.ret, ptr, old_size, fwd), LAMBDA h1 :
  Then(buddy_free(h1, ptr), LAMBDA h2 :
       [ret |-> m.ret, h |-> h2, err |-> FALSE,
        over |-> old_size > OldSize(m.h, m.ret)]))

\* the realloc that never keeps the block: always allocate, copy, free
buddy_realloc_AlwaysMove(h, ptr, size, fwd) ==
  IF ptr = NULL
  THEN Then(buddy_malloc(h, size), LAMBDA m :
         [ret |-> m.ret, h |-> m.h, err |-> m.err, over |-> FALSE])
  ELSE IF size = 0
  THEN [ret |-> NULL, h |-> buddy_free(h, ptr), err |-> FALSE, over |-> FALSE]
  ELSE Then(buddy_malloc(h, size), LAMBDA m :
         IF m.ret = NULL
         THEN [ret |-> NULL, h |-> m.h, err |-> m.err, over |-> FALSE]
         ELSE MoveBlock(m, ptr, IF size < OldSize(h, ptr) THEN size ELSE OldSize(h, ptr),
                        fwd))

\* the realloc that frees the old block before it knows the allocation worked
buddy_realloc_FreeOnFail(h, ptr, size, fwd) ==
  IF ptr = NULL
  THEN Then(buddy_malloc(h, size), LAMBDA m :
         [ret |-> m.ret, h |-> m.h, err |-> m.err, over |-> FALSE])
  ELSE IF size = 0
  THEN [ret |-> NULL, h |-> buddy_free(h, ptr), err |-> FALSE, over |-> FALSE]
  ELSE Then(OldSize(h, ptr), LAMBDA old_size :
         IF size <= old_size
         THEN [ret |-> ptr, h |-> h, err |-> FALSE, over |-> FALSE]
         ELSE Then(buddy_malloc(h, size), LAMBDA m :
                IF m.ret = NULL
                THEN [ret |-> NULL, h |-> buddy_free(m.h, ptr), err |-> m.err,
                      over |-> FALSE]
                ELSE MoveBlock(m, ptr, old_size, fwd)))

\* the realloc that treats size 0 as a request that already fits
buddy_realloc_KeepOnZero(h, ptr, size, fwd) ==
  IF ptr = NULL
  THEN Then(buddy_malloc(h, size), LAMBDA m :
         [ret |-> m.ret, h |-> m.h, err |-> m.err, over |-> FALSE])
  ELSE Then(OldSize(h, ptr), LAMBDA old_size :
         IF size <= old_size
         THEN [ret |-> IF size = 0 THEN NULL ELSE ptr, h |-> h, err |-> FALSE,
               over |-> FALSE]
         ELSE Then(buddy_malloc(h, size), LAMBDA m :
                IF m.ret = NULL
                THEN [ret |-> NULL, h |-> m.h, err |-> m.err, over |-> FALSE]
                ELSE MoveBlock(m, ptr, old_size, fwd)))

\* the result: ret, h, err as for buddy_malloc, and over: whether the copy
\* wrote past the end of the block it was given
buddy_realloc(h, ptr, size, fwd) ==
  IF ptr = NULL
  THEN Then(buddy_malloc(h, size), LAMBDA m :
         [ret |-> m.ret, h |-> m.h, err |-> m.err, over |-> FALSE])
  ELSE IF size = 0
  THEN [ret |-> NULL, h |-> buddy_free(h, ptr), err |-> FALSE, over |-> FALSE]
  ELSE Then(OldSize(h, ptr), LAMBDA old_size :
         IF size <= old_size
         THEN [ret |-> ptr, h |-> h, err |-> FALSE, over |-> FALSE]
         ELSE Then(buddy_malloc(h, size), LAMBDA m :
                IF m.ret = NULL
                THEN [ret |-> NULL, h |-> m.h, err |-> m.err, over |-> FALSE]
                ELSE MoveBlock(m, ptr, old_size, fwd)))

\* whether buddy_realloc(h, ptr, size) copies between overlapping ranges
CopyOverlaps(h, ptr, size) ==
  /\ ptr # NULL
  /\ size > OldSize(h, ptr)
  /\ \E m \in {buddy_malloc(h, size)} :
       m.ret # NULL /\ m.ret < ptr + OldSize(h, ptr) /\ ptr < m.ret + OldSize(h, ptr)

\* ---- buddy_init (lab.c 258-309), mmap succeeding ----
\* the order chosen without the lower clamp: if (k < MIN_K) k = MIN_K; left out
init_kval_m_NoMin(size) ==
  IF size = 0 THEN DEFAULT_K
  ELSE LET k == btok(size)
       IN IF k >= MAX_K THEN MAX_K - 1 ELSE k

init_kval_m(size) ==
  IF size = 0 THEN DEFAULT_K
  ELSE LET k == btok(size)
           k1 == IF k < MIN_K THEN MIN_K ELSE k
       IN IF k1 >= MAX_K THEN MAX_K - 1 ELSE k1

\* lab.c 299-308: the initial block, linked on list km
SeedBlock(h0, km) ==
  Then(Store(h0, BaseAddr, TAG, BLOCK_AVAIL), LAMBDA h1 :
  Then(Store(h1, BaseAddr, KVAL, km), LAMBDA h2 :
  Then(Store(h2, BaseAddr, NEXT, SentAddr(km)), LAMBDA h3 :
  Then(Store(h3, BaseAddr, PREV, SentAddr(km)), LAMBDA h4 :
  Then(Store(h4, SentAddr(km), NEXT, BaseAddr), LAMBDA h5 :
       Store(h5, SentAddr(km), PREV, BaseAddr))))))

buddy_init(size) ==
  Then(init_kval_m(size), LAMBDA km :
  Then([kval_m |-> km,
        numbytes |-> Pow2(km),
        avail |-> [i \in 0 .. MAX_K - 1 |->
                     <<BLOCK_UNUSED, i, SentAddr(i), SentAddr(i)>>],
        mem |-> [a \in 0 .. Pow2(km) - 1 |-> 0],
        fault |-> FALSE], LAMBDA h0 :
       SeedBlock(h0, km)))

\* ---- the state machine ----
\* the pool and the arena as the operations see them
Heap == [kval_m |-> kval_m, numbytes |-> numbytes, avail |-> avail,
         mem |-> mem, fault |-> FALSE]

\* the program has not crashed on an invalid address; once a copy has run past
\* its block at most MaxAfter more calls are followed
Running == ~fault /\ after < MaxAfter
\* the count of calls made since a copy ran past its block
AfterNext == IF overrun THEN after + 1 ELSE 0

\* ---- what an observer reads off the pool ----
\* the order in the header behind pointer p
OrderOf(h, p) == Load(h, p - HeaderSize, KVAL)
\* cells the caller may use behind pointer p
Usable(h, p) == Pow2(OrderOf(h, p)) - HeaderSize

RECURSIVE Walk(_, _, _, _)
\* the members of free list i from address a on, following next, at most n of them
Walk(h, i, a, n) ==
  IF a = SentAddr(i) \/ n = 0 \/ ~(InArena(h, a) /\ InArena(h, a + HeaderSize - 1))
  THEN <<>>
  ELSE <<a>> \o Walk(h, i, Load(h, a, NEXT), n - 1)

\* free list i, head first
FreeList(h, i) == Walk(h, i, Load(h, SentAddr(i), NEXT), Pow2(h.kval_m) + 1)

SeqSet(q) == {q[n] : n \in 1 .. Len(q)}
RECURSIVE SumSeq(_)
SumSeq(q) == IF q = <<>> THEN 0 ELSE Head(q) + SumSeq(Tail(q))

\* an order read from a header, as a size: 0 when it is no order at all
SizeOfOrder(k) == IF k \in 0 .. MAX_K THEN Pow2(k) ELSE 0

\* sum of 2^order over all free-list members
FreeBytes(h) ==
  SumSeq([i \in 1 .. MAX_K |-> Len(FreeList(h, i - 1)) * Pow2(i - 1)])

\* ---- the round trip monitor ----
\* trip follows p = malloc(s); free(p); q = malloc(s): stage 1 after the first
\* malloc (order k, free bytes before it), 2 after the free (free bytes after
\* it), 3 after the second malloc (order k2), 4 if the second malloc failed
NoTrip == [stage |-> 0, size |-> 0, ptr |-> NULL, k |-> 0, free |-> 0,
           free2 |-> 0, k2 |-> 0]

TripMalloc(t, h, size, r) ==
  IF t.stage = 2 /\ t.size = size
  THEN IF r.ret # NULL
       THEN [t EXCEPT !.stage = 3, !.k2 = OrderOf(r.h, r.ret)]
       ELSE [t EXCEPT !.stage = 4]
  ELSE IF r.ret # NULL
  THEN [stage |-> 1, size |-> size, ptr |-> r.ret, k |-> OrderOf(r.h, r.ret),
        free |-> FreeBytes(h), free2 |-> 0, k2 |-> 0]
  ELSE NoTrip

TripFree(t, ptr, h2) ==
  IF t.stage = 1 /\ t.ptr = ptr
  THEN [t EXCEPT !.stage = 2, !.free2 = FreeBytes(h2)]
  ELSE NoTrip

Init ==
  \E size \in InitSizes :
    \E h \in {buddy_init(size)} :
      /\ kval_m = h.kval_m
      /\ numbytes = h.numbytes
      /\ avail = h.avail
      /\ mem = h.mem
      /\ live = {}
      /\ last = [op |-> "init", ptr |-> NULL, size |-> size, ret |-> NULL, errno |-> "0"]
      /\ trip = NoTrip
      /\ overrun = FALSE
      /\ after = 0
      /\ fault = FALSE

\* p = buddy_malloc(pool, size)
Malloc ==
  /\ Running
  /\ \E size \in Sizes :
       \E r \in {buddy_malloc(Heap, size)} :
         /\ avail' = r.h.avail
         /\ mem' = r.h.mem
         /\ fault' = r.h.fault
         /\ live' = IF r.ret # NULL THEN live \cup {r.ret} ELSE live
         /\ last' = [op |-> "malloc", ptr |-> NULL, size |-> size, ret |-> r.ret,
                     errno |-> IF r.err THEN ENOMEM ELSE "0"]
         /\ trip' = TripMalloc(trip, Heap, size, r)
  /\ after' = AfterNext
  /\ UNCHANGED <<kval_m, numbytes, overrun>>

\* buddy_free(pool, ptr), ptr a pointer the caller holds or NULL
Free ==
  /\ Running
  /\ \E ptr \in live \cup {NULL} :
       \E h \in {buddy_free(Heap, ptr)} :
         /\ avail' = h.avail
         /\ mem' = h.mem
         /\ fault' = h.fault
         /\ live' = live \ {ptr}
         /\ last' = [op |-> "free", ptr |-> ptr, size |-> 0, ret |-> NULL, errno |-> "0"]
         /\ trip' = TripFree(trip, ptr, h)
  /\ after' = AfterNext
  /\ UNCHANGED <<kval_m, numbytes, overrun>>

\* q = buddy_realloc(pool, ptr, size), ptr a pointer the caller holds or NULL
Realloc ==
  /\ Running
  /\ \E ptr \in live \cup {NULL}, size \in Sizes, fwd \in BOOLEAN :
       /\ fwd => CopyOverlaps(Heap, ptr, size)
       /\ \E r \in {buddy_realloc(Heap, ptr, size, fwd)} :
            /\ avail' = r.h.avail
            /\ mem' = r.h.mem
            /\ fault' = r.h.fault
            /\ overrun' = (overrun \/ r.over)
            /\ live' = IF r.ret # NULL THEN (live \ {ptr}) \cup {r.ret}
                       ELSE IF size = 0 THEN live \ {ptr}
                       ELSE live
            /\ last' = [op |-> "realloc", ptr |-> ptr, size |-> size, ret |-> r.ret,
                        errno |-> IF r.err THEN ENOMEM ELSE "0"]
            /\ trip' = NoTrip
  /\ after' = AfterNext
  /\ UNCHANGED <<kval_m, numbytes>>

Next == Malloc \/ Free \/ Realloc

Spec == Init /\ [][Next]_vars

\* buddy_malloc and buddy_free only
NextMF == Malloc \/ Free

SpecMF == Init /\ [][NextMF]_vars

\* ---- btok on its own: every size a size_t holds ----
BtokSizes == 0 .. SizeMax

\* the pool of buddy_init(0), untouched, and the argument in last.size
InitBtok ==
  \E size \in BtokSizes :
    \E h \in {buddy_init(0)} :
      /\ kval_m = h.kval_m
      /\ numbytes = h.numbytes
      /\ avail = h.avail
      /\ mem = h.mem
      /\ live = {}
      /\ last = [op |-> "arg", ptr |-> NULL, size |-> size, ret |-> NULL, errno |-> "0"]
      /\ trip = NoTrip
      /\ overrun = FALSE
      /\ after = 0
      /\ fault = FALSE

\* k = btok(size): the result in last.ret
Btok ==
  /\ last.op = "arg"
  /\ last' = [last EXCEPT !.op = "btok", !.ret = btok(last.size)]
  /\ UNCHANGED <<kval_m, numbytes, avail, mem, live, trip, overrun, after, fault>>

SpecBtok == InitBtok /\ [][Btok]_vars

\* ---- buddy_init called with any size, the pool then used ----
InitAny ==
  \E size \in BtokSizes :
    \E h \in {buddy_init(size)} :
      /\ kval_m = h.kval_m
      /\ numbytes = h.numbytes
      /\ avail = h.avail
      /\ mem = h.mem
      /\ live = {}
      /\ last = [op |-> "init", ptr |-> NULL, size |-> size, ret |-> NULL, errno |-> "0"]
      /\ trip = NoTrip
      /\ overrun = FALSE
      /\ after = 0
      /\ fault = FALSE

SpecInit == InitAny /\ [][NextMF]_vars

\* ---- what the claims speak of ----
\* blocks the caller holds, by header address
ReservedBlocks == {p - HeaderSize : p \in live}
\* members of the free lists, by header address
FreeBlocks == UNION {SeqSet(FreeList(Heap, i)) : i \in 0 .. MAX_K - 1}
LiveBlocks == ReservedBlocks \cup FreeBlocks
\* the cells of the block whose header is at b, by the order in that header
RangeOf(b) == {b - BaseAddr + d : d \in 0 .. SizeOfOrder(Load(Heap, b, KVAL)) - 1}
ArenaCells == 0 .. numbytes - 1
\* every cell of the arena lies in exactly one live block, no block reaches
\* outside the arena, no block is linked twice or both linked and reserved
Partition ==
  /\ \A c \in ArenaCells : Cardinality({b \in LiveBlocks : c \in RangeOf(b)}) = 1
  /\ \A b \in LiveBlocks : RangeOf(b) \subseteq ArenaCells
  /\ \A i \in 0 .. MAX_K - 1 :
       Len(FreeList(Heap, i)) = Cardinality(SeqSet(FreeList(Heap, i)))
  /\ ReservedBlocks \cap FreeBlocks = {}

\* the pool and the arena after the step
HeapNext == [kval_m |-> kval_m', numbytes |-> numbytes', avail |-> avail',
             mem |-> mem', fault |-> FALSE]
\* the step just taken neither wrote a header nor touched a list
HeapUnchanged == avail' = avail /\ mem' = mem
\* every free list of orders k .. kval_m is empty
AllEmptyFrom(k) == \A i \in k .. kval_m : Load(Heap, SentAddr(i), NEXT) = SentAddr(i)

\* C1: whenever buddy_malloc(pool, s) with s > 0 returns a pointer, the block
\* behind it is Reserved, its order k has 2^k - sizeof(header) >= s, its offset
\* is a multiple of 2^k and its cells are disjoint from every other Reserved
\* block's.
C1_MallocBlockFits ==
  (last.op = "malloc" /\ last.size > 0 /\ last.ret # NULL /\ ~fault) =>
    LET b == last.ret - HeaderSize
        k == Load(Heap, b, KVAL)
    IN /\ Load(Heap, b, TAG) = BLOCK_RESERVED
       /\ Pow2(k) - HeaderSize >= last.size
       /\ (b - BaseAddr) % Pow2(k) = 0
       /\ \A q \in live \ {last.ret} : RangeOf(b) \cap RangeOf(q - HeaderSize) = {}

\* C2: in every state reached by malloc/free/realloc calls on live pointers
\* the blocks on the free lists and the Reserved blocks partition the arena.
C2_BlocksPartitionArena == Partition

\* C3: after buddy_malloc and buddy_free calls in which every pointer returned
\* has been freed, the list of order kval_m holds exactly the block at the
\* arena base, marked free with order kval_m, and every other list is empty.
C3_FullCoalescing ==
  (last.op = "free" /\ live = {}) =>
    /\ FreeList(Heap, kval_m) = <<BaseAddr>>
    /\ Load(Heap, BaseAddr, TAG) = BLOCK_AVAIL
    /\ Load(Heap, BaseAddr, KVAL) = kval_m
    /\ Load(Heap, SentAddr(kval_m), PREV) = BaseAddr
    /\ \A i \in 0 .. MAX_K - 1 : i # kval_m =>
         /\ Load(Heap, SentAddr(i), NEXT) = SentAddr(i)
         /\ Load(Heap, SentAddr(i), PREV) = SentAddr(i)

\* three blocks of the smallest order were held at once, so that both halves
\* of the arena were split, and every block has been freed again: the stale
\* headers the splits left behind are still in memory
C3_Witness ==
  /\ last.op = "free" /\ last.ptr # NULL /\ live = {}
  /\ kval_m >= SMALLEST_K + 2
  /\ Load(Heap, BaseAddr + Pow2(SMALLEST_K), KVAL) = SMALLEST_K
  /\ Load(Heap, BaseAddr + Pow2(SMALLEST_K + 1), KVAL) = SMALLEST_K + 1
  /\ Load(Heap, BaseAddr + Pow2(SMALLEST_K + 1) + Pow2(SMALLEST_K), KVAL) = SMALLEST_K

\* C4: buddy_malloc with a size greater than the arena's 2^kval_m cells returns
\* NULL with errno ENOMEM and changes no free list and no header.
C4_OversizeFails ==
  [][(last'.op = "malloc" /\ last'.size > numbytes) =>
       (last'.ret = NULL /\ last'.errno = ENOMEM /\ HeapUnchanged)]_vars

\* C5: with k = btok(s), s > 0: if every free list of orders k..kval_m is empty
\* buddy_malloc returns NULL with ENOMEM and changes nothing; if k <= kval_m
\* and one of these lists is non-empty it succeeds: it returns a pointer and
\* the program has not crashed.
C5_FailsIffListsEmpty ==
  [][(last'.op = "malloc" /\ last'.size > 0) =>
       /\ AllEmptyFrom(btok(last'.size)) =>
            (last'.ret = NULL /\ last'.errno = ENOMEM /\ HeapUnchanged /\ live' = live)
       /\ (btok(last'.size) <= kval_m /\ ~AllEmptyFrom(btok(last'.size))) =>
            (last'.ret # NULL /\ ~fault')]_vars

\* C6: p = buddy_malloc(s); buddy_free(p); q = buddy_malloc(s): q is a block of
\* the order p had, and the free bytes after the free equal those before the
\* first malloc.
C6_RoundTrip ==
  /\ trip.stage # 4
  /\ trip.stage \in {2, 3} => trip.free2 = trip.free
  /\ trip.stage = 3 => trip.k2 = trip.k

\* the block being freed in this step, and its buddy, as the step finds them
FreedBlock == last'.ptr - HeaderSize
FreedOrder == Load(Heap, FreedBlock, KVAL)
FreedBuddy == buddy_calc(Heap, FreedBlock)

\* C7: buddy_free of a Reserved block of order k < kval_m whose buddy is
\* Reserved, or starts a live block of another order, puts the block at the
\* head of list k with order k, unlinks nothing and leaves the buddy's header
\* as it was.
C7_NoMergeOnMismatch ==
  [][(/\ last'.op = "free" /\ last'.ptr \in live
      /\ FreedOrder < kval_m
      /\ \/ FreedBuddy \in ReservedBlocks
         \/ FreedBuddy \in LiveBlocks /\ Load(Heap, FreedBuddy, KVAL) # FreedOrder) =>
       /\ FreeList(HeapNext, FreedOrder) = <<FreedBlock>> \o FreeList(Heap, FreedOrder)
       /\ Load(HeapNext, FreedBlock, KVAL) = FreedOrder
       /\ Load(HeapNext, FreedBlock, TAG) = BLOCK_AVAIL
       /\ \A i \in 0 .. MAX_K - 1 :
            i # FreedOrder => FreeList(HeapNext, i) = FreeList(Heap, i)
       /\ \A f \in {TAG, KVAL, NEXT, PREV} :
            Load(HeapNext, FreedBuddy, f) = Load(Heap, FreedBuddy, f)]_vars

\* C8: buddy_realloc(p, n) on a live p with 0 < n <= 2^order(p) - header
\* returns p and changes nothing.
C8_ReallocInPlace ==
  [][(/\ last'.op = "realloc" /\ last'.ptr \in live
      /\ last'.size > 0 /\ last'.size <= Usable(Heap, last'.ptr)) =>
       (last'.ret = last'.ptr /\ HeapUnchanged /\ live' = live)]_vars

\* a realloc to a size a smaller order would hold returned the same pointer
C8_Witness ==
  /\ last.op = "realloc" /\ last.ptr # NULL /\ last.ret = last.ptr
  /\ last.size > 0
  /\ btok(last.size) < OrderOf(Heap, last.ptr)

\* C9: buddy_realloc(p, n) on a live p with n > 2^order(p) - header, when a
\* block can be allocated, returns q # p, Reserved, of an order that holds n,
\* whose first min(old usable, n) payload cells are those p had, and the old
\* block is Reserved no longer.
C9_ReallocMoves ==
  [][(/\ last'.op = "realloc" /\ last'.ptr \in live
      /\ last'.size > Usable(Heap, last'.ptr)
      /\ last'.ret # NULL) =>
       /\ last'.ret # last'.ptr
       /\ Load(HeapNext, last'.ret - HeaderSize, TAG) = BLOCK_RESERVED
       /\ Usable(HeapNext, last'.ret) >= last'.size
       /\ \A j \in 0 .. Usable(Heap, last'.ptr) - 1 :
            j < last'.size => Load(HeapNext, last'.ret, j) = Load(Heap, last'.ptr, j)
       /\ last'.ptr \notin live'
       /\ Load(HeapNext, last'.ptr - HeaderSize, TAG) = BLOCK_AVAIL]_vars

\* C10: when buddy_realloc(p, n) needs a larger block and the allocation
\* fails it returns NULL and leaves the arena as it was: p still Reserved at
\* its order, payload and free lists untouched.
C10_ReallocFailureKeepsBlock ==
  [][(/\ last'.op = "realloc" /\ last'.ptr \in live
      /\ last'.size > 0 /\ last'.size > Usable(Heap, last'.ptr)
      /\ last'.ret = NULL) =>
       (HeapUnchanged /\ live' = live /\ ~fault' /\ overrun' = overrun)]_vars

\* a growing realloc failed and the caller still holds the pointer
C10_Witness ==
  /\ last.op = "realloc" /\ last.ptr \in live /\ last.ret = NULL
  /\ last.size > Usable(Heap, last.ptr)
  /\ last.errno = ENOMEM
  /\ Load(Heap, last.ptr - HeaderSize, TAG) = BLOCK_RESERVED

\* the step just taken left the pool and the arena as op would have, op being
\* [ret, h, err], and returned what op returns
StepIs(op) ==
  /\ last'.ret = op.ret
  /\ (last'.errno = ENOMEM) = op.err
  /\ avail' = op.h.avail
  /\ mem' = op.h.mem
  /\ fault' = op.h.fault

\* C11: buddy_realloc(NULL, n) returns what buddy_malloc(n) returns and has its
\* effect on the pool (for n = 0: NULL and no change); buddy_realloc(p, 0) on a
\* live p returns NULL and has the effect of buddy_free(p).
C11_DegenerateRealloc ==
  [][(last'.op = "realloc") =>
       /\ last'.ptr = NULL =>
            /\ StepIs(buddy_malloc(Heap, last'.size))
            /\ live' = (IF last'.ret # NULL THEN live \cup {last'.ret} ELSE live)
            /\ last'.size = 0 => (last'.ret = NULL /\ HeapUnchanged)
       /\ (last'.ptr \in live /\ last'.size = 0) =>
            /\ StepIs([ret |-> NULL, h |-> buddy_free(Heap, last'.ptr), err |-> FALSE])
            /\ live' = live \ {last'.ptr}]_vars

\* buddy_realloc(p, 0) gave back the last block held and the arena is one
\* block again; p had come from a split
C11_Witness ==
  /\ last.op = "realloc" /\ last.ptr # NULL /\ last.size = 0 /\ last.ret = NULL
  /\ live = {}
  /\ FreeList(Heap, kval_m) = <<BaseAddr>>
  /\ Load(Heap, BaseAddr + Pow2(SMALLEST_K), KVAL) = SMALLEST_K

\* the smallest k with 2^k >= n, n below 2^(WordBits + 1)
MinOrder(n) == CHOOSE k \in 0 .. WordBits + 1 :
                 Pow2(k) >= n /\ \A j \in 0 .. k - 1 : Pow2(j) < n
\* an order brought into SMALLEST_K .. MAX_K - 1
ClampOrder(k) ==
  IF k < SMALLEST_K THEN SMALLEST_K ELSE IF k >= MAX_K THEN MAX_K - 1 ELSE k

\* C12: for every s > 0 btok(s) is the smallest k with 2^k >= s + sizeof(header),
\* brought into SMALLEST_K .. MAX_K - 1; where s + sizeof(header) is 2^k the
\* result is k and where it is 2^k + 1 the result is k + 1.
C12_BtokExact ==
  (last.op = "btok" /\ last.size > 0) =>
    last.ret = ClampOrder(MinOrder(last.size + HeaderSize))

\* C13: btok(0) is SMALLEST_K, the result for the smallest request, and for
\* every input the result is at least SMALLEST_K.
C13_BtokZeroIsSmallest ==
  (last.op = "btok") =>
    /\ last.ret >= SMALLEST_K
    /\ last.size = 0 => (last.ret = SMALLEST_K /\ last.ret = btok(1))

\* C14: after buddy_init(size): kval_m is DEFAULT_K for size 0 and otherwise in
\* MIN_K .. MAX_K - 1, numbytes is 2^kval_m, every sentinel but that of order
\* kval_m points to itself with tag BLOCK_UNUSED, and list kval_m is exactly
\* the block at the arena base, free, of order kval_m.
C14_InitState ==
  (last.op = "init") =>
    /\ last.size = 0 => kval_m = DEFAULT_K
    /\ kval_m \in MIN_K .. MAX_K - 1
    /\ numbytes = Pow2(kval_m)
    /\ DOMAIN mem = 0 .. numbytes - 1
    /\ \A i \in 0 .. MAX_K - 1 :
         /\ Load(Heap, SentAddr(i), TAG) = BLOCK_UNUSED
         /\ i # kval_m => /\ Load(Heap, SentAddr(i), NEXT) = SentAddr(i)
                          /\ Load(Heap, SentAddr(i), PREV) = SentAddr(i)
    /\ Load(Heap, SentAddr(kval_m), NEXT) = BaseAddr
    /\ Load(Heap, SentAddr(kval_m), PREV) = BaseAddr
    /\ Load(Heap, BaseAddr, NEXT) = SentAddr(kval_m)
    /\ Load(Heap, BaseAddr, PREV) = SentAddr(kval_m)
    /\ Load(Heap, BaseAddr, TAG) = BLOCK_AVAIL
    /\ Load(Heap, BaseAddr, KVAL) = kval_m

\* buddy_init was asked for a size between the smallest and the largest arena
\* and chose the order that holds it: both clamps left the order alone
C14_Witness ==
  /\ last.op = "init"
  /\ last.size > 0
  /\ kval_m > MIN_K
  /\ kval_m = btok(last.size)
  /\ Pow2(kval_m) >= last.size + HeaderSize

\* the offset of the block whose header is at b is a multiple of 2^k
AlignedAt(b, k) == k \in 0 .. MAX_K /\ (b - BaseAddr) % Pow2(k) = 0

\* C15: every live block, a member of a free list or a block held by the
\* caller, starts at an offset from the arena base that is a multiple of 2^k,
\* k being the order in its header.
C15_Alignment ==
  \A b \in LiveBlocks : AlignedAt(b, Load(Heap, b, KVAL))

\* the blocks at a and b are buddies of order k
Buddies(a, b, k) == b - BaseAddr = XorBit(a - BaseAddr, k)

\* C16: there is no order k below kval_m with two buddy blocks of order k
\* both on free list k.
C16_MaximalCoalescing ==
  \A k \in 0 .. MAX_K - 1 :
    k < kval_m =>
      \A a, b \in SeqSet(FreeList(Heap, k)) : ~Buddies(a, b, k)

\* x.next.prev = x and x.prev.next = x for the header or sentinel at x
LinkedBothWays(x) ==
  /\ ValidHdr(Heap, Load(Heap, x, NEXT))
  /\ ValidHdr(Heap, Load(Heap, x, PREV))
  /\ Load(Heap, Load(Heap, x, NEXT), PREV) = x
  /\ Load(Heap, Load(Heap, x, PREV), NEXT) = x

\* list i runs from its sentinel through blocks of the arena back to the
\* sentinel, linked both ways, each member once
WellFormedList(i) ==
  LET l == FreeList(Heap, i)
  IN /\ LinkedBothWays(SentAddr(i))
     /\ \A n \in 1 .. Len(l) : LinkedBothWays(l[n])
     /\ Len(l) = Cardinality(SeqSet(l))
     /\ Load(Heap, IF l = <<>> THEN SentAddr(i) ELSE l[Len(l)], NEXT) = SentAddr(i)

\* C19: every free list is a well-formed circular doubly-linked list through
\* its sentinel, every member of list i is tagged free with order i, no block
\* is on two lists, and no block held by the caller is on any list.
C19_FreeListsWellFormed ==
  /\ \A i \in 0 .. MAX_K - 1 :
       /\ WellFormedList(i)
       /\ \A b \in SeqSet(FreeList(Heap, i)) :
            /\ Load(Heap, b, TAG) = BLOCK_AVAIL
            /\ Load(Heap, b, KVAL) = i
  /\ \A i, j \in 0 .. MAX_K - 1 :
       i # j => SeqSet(FreeList(Heap, i)) \cap SeqSet(FreeList(Heap, j)) = {}
  /\ ReservedBlocks \cap FreeBlocks = {}

\* the lowest order from k up whose free list has a member, kval_m + 1 if none
FirstNonEmpty(k) ==
  IF \E i \in k .. kval_m : FreeList(Heap, i) # <<>>
  THEN CHOOSE i \in k .. kval_m :
         /\ FreeList(Heap, i) # <<>>
         /\ \A j \in k .. i - 1 : FreeList(Heap, j) = <<>>
  ELSE kval_m + 1

\* C17: a buddy_malloc(s) that succeeds, with k = btok(s), takes the head of
\* the first non-empty list i among k .. kval_m, returns the sub-block at that
\* block's own address, Reserved with order k, puts for every j with
\* k <= j < i exactly one new free block of order j, the one at block + 2^j,
\* at the head of list j, takes from list i its former head only and leaves
\* the lists below k and above i as they were.
C17_SplitOnAllocate ==
  [][(last'.op = "malloc" /\ last'.size > 0 /\ last'.ret # NULL /\ ~fault') =>
       LET k == btok(last'.size)
           i == FirstNonEmpty(k)
           block == Head(FreeList(Heap, i))
       IN /\ i <= kval_m
          /\ last'.ret = block + HeaderSize
          /\ Load(HeapNext, block, TAG) = BLOCK_RESERVED
          /\ Load(HeapNext, block, KVAL) = k
          /\ \A j \in 0 .. MAX_K - 1 :
               /\ (j < k \/ j > i) => FreeList(HeapNext, j) = FreeList(Heap, j)
               /\ j = i => FreeList(HeapNext, j) = Tail(FreeList(Heap, j))
               /\ (k <= j /\ j < i) =>
                    /\ FreeList(HeapNext, j) = <<block + Pow2(j)>> \o FreeList(Heap, j)
                    /\ Load(HeapNext, block + Pow2(j), TAG) = BLOCK_AVAIL
                    /\ Load(HeapNext, block + Pow2(j), KVAL) = j]_vars

RECURSIVE CoalesceVisits(_, _, _)
\* the iterations of the coalescing loop of buddy_free started on block with
\* order k: for each, the heap it found, the block, its order and the buddy
\* address buddy_calc gave
CoalesceVisits(h, block, k) ==
  IF k < h.kval_m /\ ~h.fault
  THEN Then(buddy_calc(h, block), LAMBDA buddy :
         <<[h |-> h, block |-> block, k |-> k, buddy |-> buddy]>> \o
         (IF ~ValidHdr(h, buddy) THEN <<>>
          ELSE IF Load(h, buddy, TAG) # BLOCK_AVAIL \/ Load(h, buddy, KVAL) # k
          THEN <<>>
          ELSE Then(Unlink(h, buddy), LAMBDA h1 :
               Then(IF block > buddy THEN buddy ELSE block, LAMBDA lo :
               Then(Store(h1, lo, KVAL, k + 1), LAMBDA h2 :
                    CoalesceVisits(h2, lo, k + 1))))))
  ELSE <<>>

\* the iterations buddy_free(ptr) goes through from the current state
FreeVisits(ptr) ==
  LET block == ptr - HeaderSize
  IN CoalesceVisits(Store(Heap, block, TAG, BLOCK_AVAIL), block, Load(Heap, block, KVAL))

\* members of the free lists of heap h
FreeBlocksIn(h) == UNION {SeqSet(FreeList(h, i)) : i \in 0 .. MAX_K - 1}

\* C18: in every iteration of the coalescing loop of buddy_free the buddy
\* address lies inside the arena and is the start of a live block, one held by
\* the caller or one on a free list; the loop computes no buddy for a block of
\* order kval_m; and buddy_calc applied to the buddy at the same order gives
\* the block back.
C18_BuddyIsLiveBlock ==
  [][(last'.op = "free" /\ last'.ptr \in live) =>
       LET t == FreeVisits(last'.ptr)
       IN \A n \in 1 .. Len(t) :
            /\ InArena(t[n].h, t[n].buddy)
            /\ t[n].buddy \in (ReservedBlocks \ {FreedBlock}) \cup FreeBlocksIn(t[n].h)
            /\ t[n].k < kval_m
            /\ BaseAddr + XorBit(t[n].buddy - BaseAddr, t[n].k) = t[n].block]_vars

\* C20: a buddy_malloc(s) that returns p, followed at once by buddy_free(p),
\* leaves every free list with the members it had before the malloc, in the
\* same sequence, so that a buddy_malloc(s) after it returns p again.
C20_ExactUndo ==
  [][(last'.op = "malloc" /\ last'.ret # NULL /\ ~fault') =>
       \A h2 \in {buddy_free(HeapNext, last'.ret)} :
         /\ ~h2.fault
         /\ \A i \in 0 .. MAX_K - 1 : FreeList(h2, i) = FreeList(Heap, i)
         /\ \A r \in {buddy_malloc(h2, last'.size)} :
              r.ret = last'.ret /\ ~r.h.fault]_vars

====
